---- MODULE Spec2Model ----
(***************************************************************************)
(* AI Tab Organizer: the background service worker's job controller        *)
(* (organizeTabsAndClose, closeLowImportance, undoLastAction,              *)
(* organizeTabsGeneric, the debug helpers), its single-slot journal and    *)
(* the safety filter, modelled from src/Extension/options.js.              *)
(*                                                                         *)
(* JavaScript runs one callback at a time: every action below is the code  *)
(* that runs between two awaits of one async function.                     *)
(***************************************************************************)
EXTENDS Integers, Sequences, FiniteSets, TLC

\* ------------------------------------------------------------------ bounds
MaxJobs == 2          \* async invocations that can be past the lock check at once
MaxStarts == 2        \* accepted start requests in one behaviour
MaxFaults == 1        \* host calls that fail although they could succeed
MaxTabId == 4         \* ids the host hands out (three initial tabs, one created)
MaxCloseLen == 2      \* length of the provider's tabsToClose
MaxGroups == 2        \* length of the provider's tabGroups
MaxUpdates == 1       \* chrome.tabs.onUpdated events in one behaviour
MaxUpdatedId == 1     \* ids of the tabs whose load completes
MaxDebugRuns == 1     \* debug helper invocations in one behaviour
NumDebugUrls == 1     \* urls createDebugTabs opens (10 in the source)
FilterMaxLen == 2
AdapterMaxText == 4    \* characters of a provider response text
JournalMaxOps == 3     \* journal calls in one behaviour     \* candidate list length explored for the safety filter

\* ------------------------------------------------------- program constants
RecencyWindowMs == 30000
StartMs == RecencyWindowMs * 4

JobIds == 1..MaxJobs
TabIds == 1..MaxTabId

\* ------------------------------------------------------------------- urls
\* A url is a sequence of tokens; startsWith / includes / equality are
\* computed on the tokens.
UrlA == <<"https://", "a.example">>
UrlB == <<"https://", "b.example">>
UrlC == <<"https://", "c.example">>
UrlInternal == <<"chrome://", "settings">>
UrlExtension == <<"chrome-extension://", "abc">>
UrlBlank == <<"about:blank">>
UrlNewtabPath == <<"https://", "site/", "newtab">>
UrlDebug == <<"https://", "www.wikipedia.org">>
\* a page the browser lets no extension script
UrlRestricted == <<"https://", "chromewebstore.google.com">>

StartsWith(url, prefix) == Len(url) > 0 /\ url[1] = prefix
Includes(url, token) == \E i \in 1..Len(url) : url[i] = token

\* options.js:974 (and :612)
IsProtectedUrl(url) ==
    \/ StartsWith(url, "chrome://")
    \/ StartsWith(url, "chrome-extension://")
    \/ url = UrlBlank
    \/ Includes(url, "newtab")

\* ------------------------------------------------------------------- tabs
Tab(id, url, windowId, index, active, pinned) ==
    [id |-> id, url |-> url, windowId |-> windowId, index |-> index,
     active |-> active, pinned |-> pinned, groupId |-> 0]

InitTabs ==
    { Tab(1, UrlA, 1, 2, FALSE, FALSE),
      Tab(2, UrlB, 1, 0, FALSE, TRUE),
      Tab(3, UrlC, 1, 1, TRUE, FALSE) }

Ids(ts) == { t.id : t \in ts }
HasTab(ts, id) == \E t \in ts : t.id = id
TabOf(ts, id) == CHOOSE t \in ts : t.id = id

RECURSIVE SetToSeq(_)
SetToSeq(S) ==
    IF S = {} THEN <<>>
    ELSE LET m == CHOOSE x \in S : \A y \in S : x <= y
         IN <<m>> \o SetToSeq(S \ {m})

\* chrome.tabs.query({}): the live tabs, in id order
QueryOrder(ts) == SetToSeq(Ids(ts))

Meta(t) ==
    [url |-> t.url, windowId |-> t.windowId, index |-> t.index,
     active |-> t.active, pinned |-> t.pinned]

\* ---------------------------------------------------------------- journal
NoAction == [type |-> "absent", closedTabs |-> <<>>, groupedTabIds |-> <<>>]
Action(type, closedTabs, groupedTabIds) ==
    [type |-> type, closedTabs |-> closedTabs, groupedTabIds |-> groupedTabIds]

StoredAfterSetMerging(old, action) ==
    [action EXCEPT !.closedTabs = old.closedTabs \o @]
\* chrome.storage.local.set({ lastAction: {...action, timestamp} }) replaces the
\* stored record, options.js:386
StoredAfterSet(old, action) == action

\* what chrome.storage.local may hold when the service worker starts
InitJournals ==
    { NoAction,
      Action("organize", <<Meta(Tab(0, UrlB, 1, 0, FALSE, TRUE))>>, << <<1, 3>> >>) }

\* ----------------------------------------------------------------- events
Ev(stage, a, b) == [stage |-> stage, a |-> a, b |-> b]
TerminalStages == {"complete", "error", "undo_complete"}
Stages(evs) == { evs[i].stage : i \in 1..Len(evs) }

\* ---------------------------------------------------------- safety filter
\* options.js:614-615 / 975-976: touched && nowTs - touched < 30000
\* (touch[tid] = 0 stands for "no entry": both are falsy in the source)
RecentlyTouched(touch, tid, nowTs) ==
    touch[tid] # 0 /\ nowTs - touch[tid] < RecencyWindowMs

KeepNoActiveCheck(tid, snap, touch, nowTs) ==
    /\ HasTab(snap, tid)
    /\ ~IsProtectedUrl(TabOf(snap, tid).url)
    /\ ~RecentlyTouched(touch, tid, nowTs)

\* the callback given to analysis.tabsToClose.filter, options.js:969-978
KeepCandidate(tid, snap, touch, nowTs) ==
    /\ HasTab(snap, tid)
    /\ ~TabOf(snap, tid).active
    /\ ~IsProtectedUrl(TabOf(snap, tid).url)
    /\ ~RecentlyTouched(touch, tid, nowTs)

SafetyFilter(tabsToClose, snap, touch, nowTs) ==
    SelectSeq(tabsToClose, LAMBDA tid : KeepCandidate(tid, snap, touch, nowTs))

\* --------------------------------------------------- classification result
SeqsUpTo(S, n) == UNION { [1..k -> S] : k \in 0..n }

CloseLists(ids) ==
    { SetToSeq(S) : S \in { T \in SUBSET ids : Cardinality(T) <= MaxCloseLen } }

GroupChoices(ids) ==
    { <<>> } \cup
    { SetToSeq(ids \ {m}) : m \in { x \in ids : \A y \in ids : x <= y } }

\* what a provider adapter can resolve to for the tabs sent (a parsed answer:
\* any ids in any grouping); names and colours are not tracked here
ParsedResults(ids) ==
    { [tabsToClose |-> c, tabGroups |-> g] :
        c \in CloseLists(ids), g \in SeqsUpTo(GroupChoices(ids), MaxGroups) }

\* -------------------------------------------------------- provider adapters
Providers == {"gemini", "openai", "claude"}
StoredProviders == {"absent", "gemini", "claude"}

\* analyzeTabs: prov = (provider || "openai").toLowerCase(), options.js:895-913
Route(provider) ==
    IF provider = "gemini" THEN "gemini"
    ELSE IF provider = "claude" THEN "claude"
    ELSE "openai"

\* the name each adapter puts in its fallback reasoning, options.js:749, 817, 887
ProviderLabel(adapter) ==
    IF adapter = "gemini" THEN "Gemini"
    ELSE IF adapter = "claude" THEN "Claude"
    ELSE "OpenAI"

\* A response text is a sequence of characters: "{", "}", "p" for the member
\* list of the answer object, and "g" for any character outside the JSON
\* (prose, a code fence).
TextChars == {"{", "}", "p", "g"}

\* text.indexOf(c) + 1 and text.lastIndexOf(c) + 1: 0 when c does not occur
FirstIndexOf(text, c) ==
    LET at == { i \in 1..Len(text) : text[i] = c }
    IN IF at = {} THEN 0 ELSE CHOOSE i \in at : \A k \in at : i <= k

LastIndexOf(text, c) ==
    LET at == { i \in 1..Len(text) : text[i] = c }
    IN IF at = {} THEN 0 ELSE CHOOSE i \in at : \A k \in at : i >= k

\* JSON.parse(text) returns rather than throws
IsJson(text) == text = <<"{", "}">> \/ text = <<"{", "p", "}">>

\* `data?...text || "{}"`, options.js:722-725, 795, 867
TextOrDefault(text) == IF text = <<>> THEN <<"{", "}">> ELSE text

\* the text that JSON.parse accepts, directly or as the slice from the first
\* "{" to the last "}"; <<>> when the adapter throws, options.js:728-739
AcceptedText(text) ==
    LET start == FirstIndexOf(text, "{")
        end == LastIndexOf(text, "}")
    IN IF IsJson(text) THEN text
       ELSE IF start >= 1 /\ end > start /\ IsJson(SubSeq(text, start, end))
            THEN SubSeq(text, start, end)
            ELSE <<>>

ErrorSuffix == " error - basic grouping applied"

\* the object parsed from "{}" after the two Array.isArray defaults
\* options.js:740-741
EmptyAnalysis == [tabsToClose |-> <<>>, tabGroups |-> <<>>, reasoning |-> <<>>]

FallbackWithoutGroup(adapter, tabData) == EmptyAnalysis
\* the adapters' catch branch, options.js:743-751, 812-819, 882-889
FallbackAnalysis(adapter, tabData) ==
    [tabsToClose |-> <<>>,
     tabGroups |-> << [name |-> "All Tabs", color |-> "purple", tabIds |-> tabData] >>,
     reasoning |-> << ProviderLabel(adapter), ErrorSuffix >>]

\* analyzeTabsWithGemini / analyzeTabsWithOpenAI / analyzeTabsWithClaude on the
\* ids of tabData: the fetch rejects, or returns a status and a text whose
\* member list decodes to `payload`, options.js:702-751, 778-819, 844-889
AdapterResult(adapter, reply, tabData) ==
    IF reply.status # "ok" THEN FallbackAnalysis(adapter, tabData)
    ELSE LET accepted == AcceptedText(TextOrDefault(reply.text))
         IN IF accepted = <<>> THEN FallbackAnalysis(adapter, tabData)
            ELSE IF accepted = <<"{", "}">> THEN EmptyAnalysis
            ELSE reply.payload

AdapterRejectsOnFailure(reply) == reply.status # "ok"
\* the promise an adapter returns rejects: never, since the fetch, the status
\* test and both parses sit inside its try, options.js:702-751, 778-819, 844-889
AdapterRejects(reply) == FALSE

AnalyzeTabs(provider, reply, tabData) == AdapterResult(Route(provider), reply, tabData)

\* the tabIds arrays of analysis.tabGroups
GroupIds(analysis) ==
    [g \in 1..Len(analysis.tabGroups) |-> analysis.tabGroups[g].tabIds]

\* a parsed answer with its names, colours and reasoning
Named(res) ==
    [tabsToClose |-> res.tabsToClose,
     tabGroups |-> [g \in 1..Len(res.tabGroups) |->
                      [name |-> "Group", color |-> "blue", tabIds |-> res.tabGroups[g]]],
     reasoning |-> << "short" >>]

FailedReplies ==
    { [status |-> st, text |-> <<>>, payload |-> EmptyAnalysis] :
        st \in {"network_error", "not_ok"} }

\* what the provider can answer in a pipeline run
PipelineReplies(ids) ==
    FailedReplies
    \cup { [status |-> "ok", text |-> t, payload |-> EmptyAnalysis] : t \in { <<>>, <<"g">> } }
    \cup { [status |-> "ok", text |-> <<"{", "p", "}">>, payload |-> Named(res)] :
             res \in ParsedResults(ids) }

\* the reasoning sent with ai_response is an adapter's fallback reasoning
IsFallback(analysis) ==
    Len(analysis.reasoning) = 2 /\ analysis.reasoning[2] = ErrorSuffix

\* ------------------------------------------------------------------ state
VARIABLES
    isProcessing,       \* options.js:376
    job,                \* the async invocations past the lock check
    tabs,               \* the host's live tabs
    nextId,             \* next tab id the host hands out
    lastAction,         \* chrome.storage.local "lastAction"
    events,             \* progress events since the last accepted start
    responses,          \* sendResponse payloads, by accepted / rejected
    popupRunning,       \* prog.running of the popup, part_001:48
    faults,             \* host-call failures injected so far
    started,            \* accepted start requests so far
    recentTouch,        \* options.js:546
    now,                \* Date.now(); the clock stands still within a behaviour
    updates,
    autoOrganizeTimer,  \* options.js:494 (TRUE: a timeout is pending)
    dbg,                \* the debug helper in flight
    debugRuns,
    flt,                \* safety-filter harness (FilterSpec)
    adp,                \* provider harness (AdapterSpec, RouterSpec)
    jrn                 \* journal harness (JournalSpec)

vars == <<isProcessing, job, tabs, nextId, lastAction, events, popupRunning,
          responses, faults, started, recentTouch, now, updates,
          autoOrganizeTimer, dbg, debugRuns, flt, adp, jrn>>

hostVars == <<tabs, nextId, lastAction, recentTouch>>
harnessVars == <<flt, adp, jrn>>
envVars == <<now, updates, autoOrganizeTimer, dbg, debugRuns, harnessVars>>

IdleJob ==
    [pc |-> "idle", kind |-> "none", settingsAutoClose |-> "absent",
     autoClose |-> FALSE, tabs |-> {}, i |-> 0, tabData |-> <<>>,
     tabsToClose |-> <<>>, tabGroups |-> <<>>,
     closedTabsMeta |-> <<>>, closed |-> 0,
     groupedTabIds |-> <<>>, grouped |-> 0, createdGroupId |-> 0,
     action |-> NoAction, processed |-> 0, reopened |-> 0, created |-> 0,
     fallback |-> FALSE]

IdleDbg == [pc |-> "idle", tabs |-> {}, currentId |-> 0, left |-> 0]
IdleFlt == [pc |-> "off", tabsToClose |-> <<>>, result |-> <<>>]
IdleAdp == [pc |-> "off"]
IdleJrn == [pc |-> "off"]

Init ==
    /\ isProcessing = FALSE
    /\ job = [j \in JobIds |-> IdleJob]
    /\ tabs = InitTabs
    /\ nextId = Cardinality(InitTabs) + 1
    /\ lastAction \in InitJournals
    /\ events = <<>>
    /\ responses = {}
    /\ popupRunning = FALSE
    /\ faults = 0
    /\ started = 0
    /\ recentTouch = [t \in TabIds |-> 0]
    /\ now = StartMs
    /\ updates = 0
    /\ autoOrganizeTimer = FALSE
    /\ dbg = IdleDbg
    /\ debugRuns = 0
    /\ flt = IdleFlt
    /\ adp = IdleAdp
    /\ jrn = IdleJrn

\* ------------------------------------------------------------- host calls
\* a host call returns normally
Ok == faults' = faults
\* a host call fails although it could have succeeded
Fault == faults < MaxFaults /\ faults' = faults + 1
\* a host call fails: it had to (possible = FALSE), or the failure is injected
Fails(possible) == IF possible THEN Fault ELSE Ok

\* ------------------------------------------------------- the lock and exits
BusyNever == FALSE
\* `if (isProcessing) return;` options.js:919, 1054, 1231, 1366
Busy == isProcessing

RejectedEventsStart == << Ev("start", 0, 0) >>
\* progress events of the early return, options.js:1054-1057, 1366-1369
RejectedEvents == << >>

\* sendResponse payload after `await <job>(...)`, options.js:434-435, 449-455
StartResponse == [success |-> TRUE]

ReleaseLeakOnNothing(kind, exit) == exit = "nothing"
\* isProcessing after the function returns: `finally { isProcessing = false }`
\* options.js:1037-1039, 1224-1226, 1359-1361, 1455-1457 and :1377
Release(kind, exit) == FALSE

TerminalStageMissing(exit) == "saved"
\* the stage of the last sendProgress of each exit path
\* options.js:1220/1223, 1355/1358, 1376, 1451/1454
TerminalStage(exit) ==
    CASE exit = "complete" -> "complete"
      [] exit = "undo_complete" -> "undo_complete"
      [] OTHER -> "error"

ExitEventComplete(exit) == Ev("complete", 0, 0)
\* error events: a = 1 for "Nothing to undo.", 0 for a caught exception
ExitEvent(exit) == Ev(TerminalStage(exit), IF exit = "nothing" THEN 1 ELSE 0, 0)

ManualKinds == {"organize", "close", "undo"}
Tri == {"absent", "true", "false"}

\* options.js:1089-1092: settings.autoClose if boolean, else stored ?? false
EffectiveAutoClose(settings, stored) ==
    IF settings # "absent" THEN settings = "true" ELSE stored = "true"

ShouldCloseAlways(kind, autoClose) == TRUE
ShouldCloseAlsoAuto(kind, autoClose) == kind # "organize" \/ autoClose
\* the condition of the removal loop, options.js:981, 1152, 1320
ShouldClose(kind, autoClose) == kind = "close" \/ autoClose

FirstPc(kind) == IF kind = "undo" THEN "getLast"
                 ELSE IF kind = "auto" THEN "query" ELSE "keys"
StartStage(kind) == IF kind = "undo" THEN "undo_start" ELSE "start"

\* prog.running once a job has been started: the click handlers call
\* setRunning(true) before they send the request, part_001:196, 225, 248; the
\* debounce timer starts a job without the popup
RunningAfterStart(kind, running) == IF kind = "auto" THEN running ELSE TRUE

RunningAfterTerminalOnSuccess(exit) == exit \notin {"complete", "undo_complete"}
\* prog.running once the popup has handled a terminal event: setRunning(false)
\* at complete, error and undo_complete, part_001:368, 376, 417
RunningAfterTerminal(exit) == FALSE

\* the lock is taken, "start" is sent and the first await is reached
\* options.js:920-924, 1059-1062, 1236-1239, 1370-1374
Accept(kind, ac) ==
    /\ started < MaxStarts
    /\ \E j \in JobIds :
        /\ job[j].pc = "idle"
        /\ \A k \in JobIds : k < j => job[k].pc # "idle"
        /\ job' = [job EXCEPT ![j] = [IdleJob EXCEPT !.pc = FirstPc(kind),
                                        !.kind = kind, !.settingsAutoClose = ac]]
    /\ isProcessing' = TRUE
    /\ started' = started + 1
    /\ events' = << Ev(StartStage(kind), 0, 0) >>
    /\ popupRunning' = RunningAfterStart(kind, popupRunning)
    /\ UNCHANGED <<responses, faults>>

\* the early return; a message request is then answered by the listener
Reject(viaMessage) ==
    /\ events' = events \o RejectedEvents
    /\ responses' = IF viaMessage
                    THEN responses \cup {[accepted |-> FALSE, response |-> StartResponse]}
                    ELSE responses
    /\ popupRunning' = (viaMessage \/ popupRunning)
    /\ UNCHANGED <<isProcessing, job, started, faults>>

\* chrome.runtime.onMessage: organizeTabsAndClose, options.js:433-436, 1053-1060
RequestOrganize ==
    /\ \E ac \in Tri : IF Busy THEN Reject(TRUE) ELSE Accept("organize", ac)
    /\ UNCHANGED <<hostVars, envVars>>

\* chrome.runtime.onMessage: closeLowImportance, options.js:448-451, 1230-1237
RequestClose ==
    /\ IF Busy THEN Reject(TRUE) ELSE Accept("close", "absent")
    /\ UNCHANGED <<hostVars, envVars>>

\* chrome.runtime.onMessage: undoLastAction, options.js:453-456, 1365-1371
RequestUndo ==
    /\ IF Busy THEN Reject(TRUE) ELSE Accept("undo", "absent")
    /\ UNCHANGED <<hostVars, envVars>>

ReturnAnnouncingTwice(j, evs, exit) ==
    /\ events' = events \o evs \o << ExitEvent(exit), ExitEvent(exit) >>
    /\ job' = [job EXCEPT ![j] = IdleJob]
    /\ isProcessing' = Release(job[j].kind, exit)
    /\ responses' = IF job[j].kind \in ManualKinds
                    THEN responses \cup {[accepted |-> TRUE, response |-> StartResponse]}
                    ELSE responses
    /\ popupRunning' = RunningAfterTerminal(exit)
    /\ UNCHANGED started
\* the function of job j returns by exit path `exit`, having sent `evs`
Return(j, evs, exit) ==
    /\ events' = events \o evs \o << ExitEvent(exit) >>
    /\ job' = [job EXCEPT ![j] = IdleJob]
    /\ isProcessing' = Release(job[j].kind, exit)
    /\ responses' = IF job[j].kind \in ManualKinds
                    THEN responses \cup {[accepted |-> TRUE, response |-> StartResponse]}
                    ELSE responses
    /\ popupRunning' = RunningAfterTerminal(exit)
    /\ UNCHANGED started

\* job j reaches its next await in state r, having sent `evs`
Continue(j, r, evs) ==
    /\ events' = events \o evs
    /\ job' = [job EXCEPT ![j] = r]
    /\ UNCHANGED <<isProcessing, responses, popupRunning, started>>

\* --------------------------------------------- organize / close-only / auto
Out(r, evs) == [r |-> r, ev |-> evs]

EnterRecordAnnouncing(r, evs) ==
    Out([r EXCEPT !.pc = "record"], evs \o << Ev("complete", 0, 0) >>)
\* setLastAction is called and awaited, options.js:1027, 1212, 1349
EnterRecord(r, evs) == Out([r EXCEPT !.pc = "record"], evs)

RECURSIVE NextGroup(_, _)
\* `if (!group.tabIds.length) continue;` options.js:1008, 1186-1188
NextGroup(groups, g) ==
    IF g > Len(groups) THEN g
    ELSE IF Len(groups[g]) = 0 THEN NextGroup(groups, g + 1)
    ELSE g

\* the grouping loop from group g on, up to its next chrome.tabs.group call
\* options.js:1006-1024, 1184-1208
GroupLoop(r, evs, g) ==
    LET n == NextGroup(r.tabGroups, g)
    IN IF n <= Len(r.tabGroups)
       THEN Out([r EXCEPT !.pc = "group", !.i = n], evs)
       ELSE EnterRecord(r, evs \o << Ev("grouping_done", r.grouped, 0) >>)

\* options.js:1003-1004, 1181-1182; closeLowImportance has no grouping
EnterGrouping(r, evs) ==
    IF r.kind # "close" /\ Len(r.tabGroups) > 0
    THEN GroupLoop(r, evs, 1)
    ELSE EnterRecord(r, evs)

\* options.js:981-983, 1152-1154, 1320-1322
EnterClosing(r, evs) ==
    IF ShouldClose(r.kind, r.autoClose)
    THEN IF Len(r.tabsToClose) > 0
         THEN Out([r EXCEPT !.pc = "closing", !.i = 1], evs)
         ELSE EnterGrouping(r, evs \o << Ev("closing_done", 0, 0) >>)
    ELSE EnterGrouping(r, evs)

\* the type of the record, options.js:1028, 1213-1215, 1350
ActionType(r) ==
    IF r.kind = "close" THEN "close"
    ELSE IF r.autoClose
         THEN (IF Len(r.groupedTabIds) > 0 THEN "organize" ELSE "close")
         ELSE (IF Len(r.groupedTabIds) > 0 THEN "group" ELSE "none")

\* the host activates another tab of the window when the active tab goes
Reactivate(ts, windowId) ==
    LET inWin == { t \in ts : t.windowId = windowId }
    IN IF inWin = {} \/ \E t \in inWin : t.active THEN ts
       ELSE LET m == CHOOSE t \in inWin : \A u \in inWin : t.id <= u.id
            IN (ts \ {m}) \cup { [m EXCEPT !.active = TRUE] }

\* chrome.tabs.remove(id) succeeded
HostRemove(ts, id) ==
    LET t == TabOf(ts, id) IN Reactivate(ts \ {t}, t.windowId)

FreshGid(ts) ==
    CHOOSE g \in 1..(Cardinality(ts) + 1) : \A t \in ts : t.groupId # g

\* chrome.tabs.group / chrome.tabs.ungroup succeeded on these ids
HostSetGroup(ts, ids, gid) ==
    { IF t.id \in ids THEN [t EXCEPT !.groupId = gid] ELSE t : t \in ts }

SeqIds(q) == { q[i] : i \in 1..Len(q) }
AllLive(ts, q) == SeqIds(q) \subseteq Ids(ts)

\* await chrome.storage.sync.get(keys...) returns or throws, options.js:1062, 1239
StorageKeys(j) ==
    /\ job[j].pc = "keys"
    /\ \/ Ok /\ Continue(j, [job[j] EXCEPT !.pc = "prefs"], <<>>)
       \/ Fault /\ Return(j, <<>>, "error")
    /\ UNCHANGED <<hostVars, envVars>>

\* await chrome.storage.sync.get(prefs) returns or throws, options.js:1079-1092, 1256
StoragePrefs(j) ==
    /\ job[j].pc = "prefs"
    /\ \/ \E stored \in Tri :
            Ok /\
            Continue(j, [job[j] EXCEPT !.pc = "query",
                           !.autoClose = job[j].kind = "organize" /\
                               EffectiveAutoClose(job[j].settingsAutoClose, stored)],
                     <<>>)
       \/ Fault /\ Return(j, <<>>, "error")
    /\ UNCHANGED <<hostVars, envVars>>

\* await chrome.tabs.query({}) returns or throws, options.js:924-925, 1095-1096, 1263-1264
QueryTabs(j) ==
    /\ job[j].pc = "query"
    /\ \/ LET n == Cardinality(tabs)
              collected == << Ev("tabs_collected", n, 0) >>
          IN Ok /\
             IF n = 0
             THEN Continue(j, [job[j] EXCEPT !.pc = "analyze", !.tabs = tabs],
                           collected \o << Ev("ai_request", 0, 0) >>)
             ELSE Continue(j, [job[j] EXCEPT !.pc = "extract", !.tabs = tabs, !.i = 1],
                           collected)
       \/ Fault /\ Return(j, <<>>, "error")
    /\ UNCHANGED <<hostVars, envVars>>

\* chrome.scripting.executeScript returns the page's result, or throws on a
\* page that cannot be scripted, options.js:1468-1490
ExecuteScript(tab) == IF tab.url = UrlRestricted THEN "threw" ELSE "result"

\* extractTabContent(tab): a note for an internal page, the script's result,
\* or {} when the script could not run, options.js:1461-1497
ExtractTabContent(tab, outcome) ==
    IF StartsWith(tab.url, "chrome://") \/ StartsWith(tab.url, "chrome-extension://")
    THEN "note"
    ELSE IF outcome = "threw" THEN "empty" ELSE "page"

TabDataWithoutFailed(tabData, tab, content) ==
    IF content = "empty" THEN tabData ELSE Append(tabData, [id |-> tab.id, content |-> content])
\* tabData.push({id, url, title, content, favIconUrl}), options.js:934-940,
\* 1108-1114, 1276-1282
TabDataPush(tabData, tab, content) ==
    Append(tabData, [id |-> tab.id, content |-> content])

\* tabData.map((t) => t.id)
TabDataIds(tabData) == [k \in 1..Len(tabData) |-> tabData[k].id]

\* await extractTabContent(tab) returns (it never throws), the item is pushed
\* and extract_progress is sent, options.js:928-946, 1100-1124, 1268-1292
Extract(j) ==
    /\ job[j].pc = "extract"
    /\ Ok
    /\ LET r == job[j]
           n == Cardinality(r.tabs)
           tab == TabOf(r.tabs, QueryOrder(r.tabs)[r.i])
           pushed == [r EXCEPT !.tabData =
                         TabDataPush(@, tab, ExtractTabContent(tab, ExecuteScript(tab)))]
           progress == << Ev("extract_progress", r.i, n) >>
       IN IF r.i < n
          THEN Continue(j, [pushed EXCEPT !.i = @ + 1], progress)
          ELSE Continue(j, [pushed EXCEPT !.pc = "analyze", !.i = 0],
                        progress \o << Ev("ai_request", Len(pushed.tabData), 0) >>)
    /\ UNCHANGED <<hostVars, envVars>>

\* await analyzeTabs(...) resolves (the adapters never reject), options.js:949-979,
\* 1125-1149, 1293-1317; only organizeTabsGeneric filters the removal list;
\* tabData is not read again once analyzeTabs has returned
Analyze(j) ==
    /\ job[j].pc = "analyze"
    /\ Ok
    /\ \E provider \in StoredProviders, reply \in PipelineReplies(Ids(job[j].tabs)) :
        LET r == job[j]
            analysis == AnalyzeTabs(provider, reply, TabDataIds(r.tabData))
            res == [tabsToClose |-> analysis.tabsToClose, tabGroups |-> GroupIds(analysis)]
            response == << Ev("ai_response", Len(res.tabsToClose),
                              IF r.kind = "close" THEN 0 ELSE Len(res.tabGroups)) >>
            toClose == IF r.kind = "auto"
                       THEN SafetyFilter(res.tabsToClose, r.tabs, recentTouch, now)
                       ELSE res.tabsToClose
            groups == IF r.kind = "close" THEN <<>> ELSE res.tabGroups
            out == EnterClosing([r EXCEPT !.tabData = <<>>,
                                           !.tabsToClose = toClose,
                                           !.tabGroups = groups,
                                           !.fallback = IsFallback(analysis)], response)
        IN IF AdapterRejects(reply)
           THEN Return(j, <<>>, "error")
           ELSE Continue(j, out.r, out.ev)
    /\ UNCHANGED <<hostVars, envVars>>

\* closedTabsMeta.push(...) before the removal is awaited, options.js:985-994,
\* 1156-1165, 1324-1333
PushMeta(r, tabId) ==
    IF HasTab(r.tabs, tabId) /\ TabOf(r.tabs, tabId).url # <<>>
    THEN Append(r.closedTabsMeta, Meta(TabOf(r.tabs, tabId)))
    ELSE r.closedTabsMeta

AfterRemoveAborting(r, evs) ==
    IF evs # <<>> /\ r.i < Len(r.tabsToClose)
    THEN Out([r EXCEPT !.i = @ + 1], evs)
    ELSE EnterGrouping([r EXCEPT !.i = 0],
                       evs \o << Ev("closing_done", r.closed, 0) >>)
\* the removal loop after the attempt on tabsToClose[i], options.js:983-1000,
\* 1154-1177, 1322-1345
AfterRemove(r, evs) ==
    IF r.i < Len(r.tabsToClose)
    THEN Out([r EXCEPT !.i = @ + 1], evs)
    ELSE EnterGrouping([r EXCEPT !.i = 0],
                       evs \o << Ev("closing_done", r.closed, 0) >>)

\* await chrome.tabs.remove(tabId) returns or throws
Remove(j) ==
    /\ job[j].pc = "closing"
    /\ LET r == job[j]
           tabId == r.tabsToClose[r.i]
           pushed == [r EXCEPT !.closedTabsMeta = PushMeta(r, tabId)]
       IN \/ /\ HasTab(tabs, tabId)
             /\ Ok
             /\ tabs' = HostRemove(tabs, tabId)
             /\ LET done == [pushed EXCEPT !.closed = @ + 1]
                    out == AfterRemove(done,
                               << Ev("closing_progress", done.closed, Len(r.tabsToClose)) >>)
                IN Continue(j, out.r, out.ev)
          \/ /\ Fails(HasTab(tabs, tabId))
             /\ tabs' = tabs
             /\ LET out == AfterRemove(pushed, <<>>)
                IN Continue(j, out.r, out.ev)
    /\ UNCHANGED <<nextId, lastAction, recentTouch, envVars>>

\* await chrome.tabs.group({tabIds}) returns or throws, options.js:1009, 1189-1191
GroupTabs(j) ==
    /\ job[j].pc = "group"
    /\ LET r == job[j]
           ids == r.tabGroups[r.i]
       IN \/ /\ AllLive(tabs, ids)
             /\ Ok
             /\ tabs' = HostSetGroup(tabs, SeqIds(ids), FreshGid(tabs))
             /\ Continue(j, [r EXCEPT !.pc = "label",
                                      !.createdGroupId = FreshGid(tabs)], <<>>)
          \/ /\ Fails(AllLive(tabs, ids))
             /\ tabs' = tabs
             /\ LET out == GroupLoop(r, <<>>, r.i + 1)
                IN Continue(j, out.r, out.ev)
    /\ UNCHANGED <<nextId, lastAction, recentTouch, envVars>>

\* await chrome.tabGroups.update(gid, ...) returns or throws, options.js:1010-1022,
\* 1192-1206
LabelGroup(j) ==
    /\ job[j].pc = "label"
    /\ LET r == job[j]
           ids == r.tabGroups[r.i]
       IN \/ /\ \E t \in tabs : t.groupId = r.createdGroupId
             /\ Ok
             /\ LET done == [r EXCEPT !.grouped = @ + 1, !.createdGroupId = 0,
                                      !.groupedTabIds = Append(@, ids)]
                    out == GroupLoop(done,
                               << Ev("group_progress", done.grouped, Len(r.tabGroups)) >>,
                               r.i + 1)
                IN Continue(j, out.r, out.ev)
          \/ /\ Fails(\E t \in tabs : t.groupId = r.createdGroupId)
             /\ LET out == GroupLoop([r EXCEPT !.createdGroupId = 0], <<>>, r.i + 1)
                IN Continue(j, out.r, out.ev)
    /\ UNCHANGED <<hostVars, envVars>>

\* await setLastAction(...) returns: the write succeeded, or failed and was
\* swallowed (options.js:384-390); then "complete", options.js:1027-1039,
\* 1212-1226, 1349-1361
Record(j) ==
    /\ job[j].pc = "record"
    /\ \/ Ok /\ lastAction' = StoredAfterSet(lastAction,
                                 Action(ActionType(job[j]), job[j].closedTabsMeta,
                                        job[j].groupedTabIds))
       \/ Fault /\ lastAction' = lastAction
    /\ Return(j, <<>>, "complete")
    /\ UNCHANGED <<tabs, nextId, recentTouch, envVars>>

\* --------------------------------------------------------------------- undo
\* options.js:1450: clearLastAction is called and awaited
EnterClear(r, evs) == Out([r EXCEPT !.pc = "clear", !.i = 0], evs)

\* options.js:1402-1404
EnterReopen(r, evs) ==
    IF Len(r.action.closedTabs) > 0
    THEN Out([r EXCEPT !.pc = "create", !.i = 1], evs)
    ELSE EnterClear(r, evs)

EnterUngroupSkipped(r, evs) == EnterReopen(r, evs)
\* options.js:1382-1384
EnterUngroup(r, evs) ==
    IF Len(r.action.groupedTabIds) > 0
    THEN Out([r EXCEPT !.pc = "ungroup", !.i = 1], evs)
    ELSE EnterReopen(r, evs)

\* options.js:1375: !action || action.type === "none"
NothingToUndo(action) == action = NoAction \/ action.type = "none"

\* await getLastAction() returns the record, or null when the read failed
\* (options.js:391-399); options.js:1374-1379
GetLast(j) ==
    /\ job[j].pc = "getLast"
    /\ \E read \in BOOLEAN :
        LET action == IF read THEN lastAction ELSE NoAction
        IN /\ IF read THEN Ok ELSE Fault
           /\ IF NothingToUndo(action)
              THEN Return(j, <<>>, "nothing")
              ELSE LET out == EnterUngroup([job[j] EXCEPT !.action = action], <<>>)
                   IN Continue(j, out.r, out.ev)
    /\ UNCHANGED <<hostVars, envVars>>

AfterUngroupAborting(r, evs) ==
    IF evs # <<>> /\ r.i < Len(r.action.groupedTabIds)
    THEN Out([r EXCEPT !.i = @ + 1], evs)
    ELSE EnterReopen(r, evs \o << Ev("undo_grouping_done", r.processed, 0) >>)
\* the ungroup loop after the attempt on batch i, options.js:1384-1398
AfterUngroup(r, evs) ==
    IF r.i < Len(r.action.groupedTabIds)
    THEN Out([r EXCEPT !.i = @ + 1], evs)
    ELSE EnterReopen(r, evs \o << Ev("undo_grouping_done", r.processed, 0) >>)

\* await chrome.tabs.ungroup(tabIds) returns or throws, options.js:1385-1396
Ungroup(j) ==
    /\ job[j].pc = "ungroup"
    /\ LET r == job[j]
           ids == r.action.groupedTabIds[r.i]
           done == [r EXCEPT !.processed = @ + 1]
       IN \/ /\ AllLive(tabs, ids)
             /\ Ok
             /\ tabs' = HostSetGroup(tabs, SeqIds(ids), 0)
             /\ LET out == AfterUngroup(done,
                               << Ev("undo_grouping_progress", done.processed,
                                     Len(r.action.groupedTabIds)) >>)
                IN Continue(j, out.r, out.ev)
          \/ /\ Fails(AllLive(tabs, ids))
             /\ tabs' = tabs
             /\ LET out == AfterUngroup(done, <<>>)
                IN Continue(j, out.r, out.ev)
    /\ UNCHANGED <<nextId, lastAction, recentTouch, envVars>>

\* the reopen loop after item i, options.js:1404-1447
AfterReopen(r, evs) ==
    IF r.i < Len(r.action.closedTabs)
    THEN Out([r EXCEPT !.pc = "create", !.i = @ + 1, !.created = 0], evs)
    ELSE EnterClear([r EXCEPT !.created = 0],
                    evs \o << Ev("undo_reopen_done", r.reopened, 0) >>)

\* options.js:1428-1432, 1437-1441
Reopened(r) ==
    LET done == [r EXCEPT !.reopened = @ + 1]
    IN AfterReopen(done, << Ev("undo_reopen_progress", done.reopened,
                               Len(r.action.closedTabs)) >>)

\* chrome.tabs.create failed
HostCreateFails ==
    /\ Fails(nextId <= MaxTabId)
    /\ UNCHANGED <<tabs, nextId, recentTouch>>

HostCreateActive(url, windowId) ==
    /\ nextId <= MaxTabId
    /\ Ok
    /\ tabs' = tabs \cup
         { Tab(nextId, url, windowId,
               Cardinality({ t \in tabs : t.windowId = windowId }), TRUE, FALSE) }
    /\ nextId' = nextId + 1
    /\ recentTouch' = [recentTouch EXCEPT ![nextId] = now]
\* chrome.tabs.create succeeded: a new inactive tab at the end of the window;
\* chrome.tabs.onCreated then stamps it, options.js:547-549
HostCreate(url, windowId) ==
    /\ nextId <= MaxTabId
    /\ Ok
    /\ tabs' = tabs \cup
         { Tab(nextId, url, windowId,
               Cardinality({ t \in tabs : t.windowId = windowId }), FALSE, FALSE) }
    /\ nextId' = nextId + 1
    /\ recentTouch' = [recentTouch EXCEPT ![nextId] = now]

\* await chrome.tabs.create({url, active: false, windowId}) returns or throws
\* options.js:1407-1411, 1433
Create(j) ==
    /\ job[j].pc = "create"
    /\ LET r == job[j]
           meta == r.action.closedTabs[r.i]
       IN \/ /\ HostCreate(meta.url, meta.windowId)
             /\ Continue(j, [r EXCEPT !.pc = "move", !.created = nextId], <<>>)
          \/ /\ HostCreateFails
             /\ Continue(j, [r EXCEPT !.pc = "create2"], <<>>)
    /\ UNCHANGED <<lastAction, envVars>>

\* await chrome.tabs.move(created.id, {index}) returns or throws, options.js:1413-1427
Move(j) ==
    /\ job[j].pc = "move"
    /\ LET r == job[j]
           meta == r.action.closedTabs[r.i]
           out == IF meta.pinned THEN Out([r EXCEPT !.pc = "pin"], <<>>)
                  ELSE Reopened(r)
       IN /\ \/ /\ HasTab(tabs, r.created)
                /\ Ok
                /\ tabs' = (tabs \ {TabOf(tabs, r.created)}) \cup
                             { [TabOf(tabs, r.created) EXCEPT !.index = meta.index] }
             \/ Fails(HasTab(tabs, r.created)) /\ tabs' = tabs
          /\ Continue(j, out.r, out.ev)
    /\ UNCHANGED <<nextId, lastAction, recentTouch, envVars>>

\* await chrome.tabs.update(created.id, {pinned: true}) returns or throws
\* options.js:1421-1432
Pin(j) ==
    /\ job[j].pc = "pin"
    /\ LET r == job[j]
           out == Reopened(r)
       IN /\ \/ /\ HasTab(tabs, r.created)
                /\ Ok
                /\ tabs' = (tabs \ {TabOf(tabs, r.created)}) \cup
                             { [TabOf(tabs, r.created) EXCEPT !.pinned = TRUE] }
             \/ Fails(HasTab(tabs, r.created)) /\ tabs' = tabs
          /\ Continue(j, out.r, out.ev)
    /\ UNCHANGED <<nextId, lastAction, recentTouch, envVars>>

\* the fallback await chrome.tabs.create({url, active: false}) returns or
\* throws, options.js:1435-1444
CreateFallback(j) ==
    /\ job[j].pc = "create2"
    /\ LET r == job[j]
           meta == r.action.closedTabs[r.i]
       IN \/ /\ HostCreate(meta.url, 1)
             /\ LET out == Reopened(r) IN Continue(j, out.r, out.ev)
          \/ /\ HostCreateFails
             /\ LET out == AfterReopen(r, <<>>) IN Continue(j, out.r, out.ev)
    /\ UNCHANGED <<lastAction, envVars>>

\* await clearLastAction() returns: removed, or failed and swallowed
\* (options.js:400-406); then "undo_complete", options.js:1450-1457
Clear(j) ==
    /\ job[j].pc = "clear"
    /\ \/ Ok /\ lastAction' = NoAction
       \/ Fault /\ lastAction' = lastAction
    /\ Return(j, <<>>, "undo_complete")
    /\ UNCHANGED <<tabs, nextId, recentTouch, envVars>>

\* -------------------------------------------------------------- environment
jobVars == <<isProcessing, job, events, responses, popupRunning, faults, started>>

\* chrome.tabs.onUpdated with status "complete": the tab is stamped and
\* autoOrganizeIfEnabled (re)arms the debounce timer when the stored
\* autoOrganize flag is set, options.js:495-544, 551-556
OnUpdated ==
    /\ updates < MaxUpdates
    /\ updates' = updates + 1
    /\ \E t \in { u \in tabs : u.id <= MaxUpdatedId } :
        recentTouch' = [recentTouch EXCEPT ![t.id] = now]
    /\ \E autoOrganize \in BOOLEAN :
        autoOrganizeTimer' = (autoOrganize \/ autoOrganizeTimer)
    /\ UNCHANGED <<jobVars, tabs, nextId, lastAction, now, dbg, debugRuns, harnessVars>>

\* the debounce timeout fires: organizeTabsGeneric({..., autoClose: false}),
\* options.js:523-540, 918-924
TimerFires ==
    /\ autoOrganizeTimer
    /\ autoOrganizeTimer' = FALSE
    /\ IF Busy THEN Reject(FALSE) ELSE Accept("auto", "absent")
    /\ UNCHANGED <<hostVars, now, updates, dbg, debugRuns, harnessVars>>

\* ------------------------------------------------------------ debug helpers
dbgFrame == <<isProcessing, job, events, responses, popupRunning, started, now, updates,
             autoOrganizeTimer, harnessVars>>

\* chrome.runtime.onMessage: debugCreateTabs, options.js:438-441, 1584-1602
RequestDebugCreate ==
    /\ dbg.pc = "idle"
    /\ debugRuns < MaxDebugRuns
    /\ debugRuns' = debugRuns + 1
    /\ dbg' = [IdleDbg EXCEPT !.pc = "dcreate", !.left = NumDebugUrls]
    /\ UNCHANGED <<jobVars, hostVars, now, updates, autoOrganizeTimer, harnessVars>>

\* await chrome.tabs.create({url, active: false}) returns or throws, options.js:1602-1608
DebugCreate ==
    /\ dbg.pc = "dcreate"
    /\ \/ HostCreate(UrlDebug, 1)
       \/ HostCreateFails
    /\ dbg' = IF dbg.left > 1 THEN [dbg EXCEPT !.left = @ - 1] ELSE IdleDbg
    /\ UNCHANGED <<lastAction, debugRuns, dbgFrame>>

\* chrome.runtime.onMessage: debugCloseAllTabs, options.js:443-446, 1612-1614
RequestDebugClose ==
    /\ dbg.pc = "idle"
    /\ debugRuns < MaxDebugRuns
    /\ debugRuns' = debugRuns + 1
    /\ dbg' = [IdleDbg EXCEPT !.pc = "dquery"]
    /\ UNCHANGED <<jobVars, hostVars, now, updates, autoOrganizeTimer, harnessVars>>

\* await chrome.tabs.query({}) returns or throws, options.js:1614, 1632-1634
DebugQuery ==
    /\ dbg.pc = "dquery"
    /\ \/ Ok /\ dbg' = [dbg EXCEPT !.pc = "dcurrent", !.tabs = tabs]
       \/ Fault /\ dbg' = IdleDbg
    /\ UNCHANGED <<hostVars, debugRuns, dbgFrame>>

\* ids of debugCloseAllTabs' toClose, options.js:1617
DebugToClose(d) == { t.id : t \in { u \in d.tabs : u.id # d.currentId } }

\* await chrome.tabs.query({active, currentWindow}) returns or throws; with
\* nothing to close the helper goes on to setLastAction, options.js:1615-1631
DebugCurrent ==
    /\ dbg.pc = "dcurrent"
    /\ \/ LET act == { t \in tabs : t.active /\ t.windowId = 1 }
              cur == IF act = {} THEN 0 ELSE (CHOOSE t \in act : TRUE).id
              d == [dbg EXCEPT !.currentId = cur]
          IN Ok /\
             dbg' = [d EXCEPT !.pc = IF DebugToClose(d) = {} THEN "dsave" ELSE "dremove"]
       \/ Fault /\ dbg' = IdleDbg
    /\ UNCHANGED <<hostVars, debugRuns, dbgFrame>>

\* await chrome.tabs.remove(toClose) returns or throws, options.js:1630
DebugRemove ==
    /\ dbg.pc = "dremove"
    /\ \/ /\ DebugToClose(dbg) \subseteq Ids(tabs)
          /\ Ok
          /\ tabs' = Reactivate({ t \in tabs : t.id \notin DebugToClose(dbg) }, 1)
          /\ dbg' = [dbg EXCEPT !.pc = "dsave"]
       \/ /\ Fails(DebugToClose(dbg) \subseteq Ids(tabs))
          /\ tabs' = tabs
          /\ dbg' = IdleDbg
    /\ UNCHANGED <<nextId, lastAction, recentTouch, debugRuns, dbgFrame>>

\* closedTabsMeta of debugCloseAllTabs, options.js:1620-1628
DebugMeta(d) ==
    LET keep == { t \in d.tabs : t.id # d.currentId /\ t.url # <<>> }
        order == SetToSeq(Ids(keep))
    IN [i \in 1..Len(order) |-> Meta(TabOf(keep, order[i]))]

\* await setLastAction(...) returns, options.js:1631
DebugSave ==
    /\ dbg.pc = "dsave"
    /\ \/ Ok /\ lastAction' = StoredAfterSet(lastAction,
                                 Action("close", DebugMeta(dbg), <<>>))
       \/ Fault /\ lastAction' = lastAction
    /\ dbg' = IdleDbg
    /\ UNCHANGED <<tabs, nextId, recentTouch, debugRuns, dbgFrame>>

\* ------------------------------------------------------------------- popup
\* PCT_WEIGHTS in percent, part_001:33-38
WeightExtract == 50
WeightAi == 10
WeightClosing == 20
WeightGrouping == 20

\* `prog` as the click handlers reset it (and as it is when the popup opens),
\* with the percentage setRunning(true) displays, part_001:39-49, 58-62
PopupFresh ==
    [totalTabs |-> 0, extracted |-> 0, aiStarted |-> FALSE, aiDone |-> FALSE,
     closingTotal |-> 0, closingDone |-> 0, groupingTotal |-> 0, groupingDone |-> 0,
     percent |-> 0]

Max(a, b) == IF a >= b THEN a ELSE b
Min(a, b) == IF a <= b THEN a ELSE b

\* Math.round(num / den) for num >= 0, den > 0
RoundDiv(num, den) == (2 * num + den) \div (2 * den)

\* setPercent(p): clamped = max(0, min(100, round(p))), part_001:71-75
Clamp(p) == Max(0, Min(100, p))

\* computePercent() as num / den, part_001:87-109; a phase whose total is 0
\* counts as finished
PercentParts(p) ==
    LET e == IF p.totalTabs > 0 THEN [n |-> p.extracted, d |-> p.totalTabs]
             ELSE [n |-> 0, d |-> 1]
        ai == IF p.aiDone THEN [n |-> 2, d |-> 2]
              ELSE IF p.aiStarted THEN [n |-> 1, d |-> 2] ELSE [n |-> 0, d |-> 2]
        c == IF p.closingTotal > 0 THEN [n |-> p.closingDone, d |-> p.closingTotal]
             ELSE [n |-> 1, d |-> 1]
        g == IF p.groupingTotal > 0 THEN [n |-> p.groupingDone, d |-> p.groupingTotal]
             ELSE [n |-> 1, d |-> 1]
    IN [n |-> WeightExtract * e.n * ai.d * c.d * g.d
              + WeightAi * ai.n * e.d * c.d * g.d
              + WeightClosing * c.n * e.d * ai.d * g.d
              + WeightGrouping * g.n * e.d * ai.d * c.d,
        d |-> e.d * ai.d * c.d * g.d]

computePercent(p) == Clamp(RoundDiv(PercentParts(p).n, PercentParts(p).d))

\* updatePercentAndStage(...), part_001:111-114
Shown(p) == [p EXCEPT !.percent = computePercent(p)]

TerminalPercentComputed(p) == p.percent
\* setPercent(100) of complete and undo_complete, part_001:365, 414
TerminalPercent(p) == 100

\* `x || y` on numbers
OrElse(x, y) == IF x # 0 THEN x ELSE y

UndoReopenPercentFromZero(reopened, total) == RoundDiv(reopened * 95, total)
\* 50 + Math.round((reopened / total) * 45), part_001:403
UndoReopenPercent(reopened, total) == 50 + RoundDiv(reopened * 45, total)

\* the progress listener on one event, part_001:296-425
PopupStep(p, ev) ==
    CASE ev.stage = "start" -> Shown(p)
      [] ev.stage = "tabs_collected" -> Shown([p EXCEPT !.totalTabs = ev.a])
      [] ev.stage = "extract_progress" ->
            Shown([p EXCEPT !.extracted = OrElse(ev.a, p.extracted)])
      [] ev.stage = "ai_request" -> Shown([p EXCEPT !.aiStarted = TRUE])
      [] ev.stage = "ai_response" ->
            [Shown([p EXCEPT !.aiDone = TRUE]) EXCEPT !.closingTotal = ev.a,
                                                      !.groupingTotal = ev.b]
      [] ev.stage = "closing_progress" ->
            Shown([p EXCEPT !.closingTotal = Max(p.closingTotal, ev.b),
                            !.closingDone = OrElse(ev.a, p.closingDone)])
      [] ev.stage = "closing_done" -> Shown(p)
      [] ev.stage = "group_progress" ->
            Shown([p EXCEPT !.groupingTotal = Max(p.groupingTotal, ev.b),
                            !.groupingDone = OrElse(ev.a, p.groupingDone)])
      [] ev.stage = "grouping_done" -> Shown(p)
      [] ev.stage = "complete" -> [p EXCEPT !.percent = TerminalPercent(Shown(p))]
      [] ev.stage = "error" -> p
      [] ev.stage = "undo_start" -> [p EXCEPT !.percent = Clamp(5)]
      [] ev.stage = "undo_grouping_progress" ->
            IF ev.b > 0
            THEN [p EXCEPT !.percent = Clamp(20 + RoundDiv(ev.a * 20, ev.b))]
            ELSE p
      [] ev.stage = "undo_grouping_done" -> [p EXCEPT !.percent = Clamp(40)]
      [] ev.stage = "undo_reopen_progress" ->
            IF ev.b > 0
            THEN [p EXCEPT !.percent = Clamp(UndoReopenPercent(ev.a, ev.b))]
            ELSE p
      [] ev.stage = "undo_reopen_done" -> p
      [] ev.stage = "undo_complete" -> [p EXCEPT !.percent = TerminalPercent(Shown(p))]
      [] OTHER -> p

RECURSIVE PopupAfter(_, _)
\* the popup after the first k events of a job it has watched from the start
PopupAfter(evs, k) ==
    IF k = 0 THEN PopupFresh ELSE PopupStep(PopupAfter(evs, k - 1), evs[k])

PercentAfter(evs, k) == PopupAfter(evs, k).percent

\* ------------------------------------------------------------ specification
JobStep(j) ==
    \/ StorageKeys(j) \/ StoragePrefs(j) \/ QueryTabs(j) \/ Extract(j)
    \/ Analyze(j) \/ Remove(j) \/ GroupTabs(j) \/ LabelGroup(j) \/ Record(j)
    \/ GetLast(j) \/ Ungroup(j) \/ Create(j) \/ Move(j) \/ Pin(j)
    \/ CreateFallback(j) \/ Clear(j)

DebugStep ==
    \/ RequestDebugCreate \/ DebugCreate \/ RequestDebugClose \/ DebugQuery
    \/ DebugCurrent \/ DebugRemove \/ DebugSave

Next ==
    \/ RequestOrganize \/ RequestClose \/ RequestUndo
    \/ \E j \in JobIds : JobStep(j)
    \/ OnUpdated \/ TimerFires

Spec == Init /\ [][Next]_vars

\* every host call of a running job eventually returns or fails
FairSpec == Spec /\ \A j \in JobIds : WF_vars(JobStep(j))

\* the manual jobs together with the debug helpers
DebugNext ==
    \/ RequestOrganize \/ RequestClose \/ RequestUndo
    \/ \E j \in JobIds : JobStep(j)
    \/ DebugStep

DebugSpec == Init /\ [][DebugNext]_vars

\* ------------------------------------------- the safety filter on its own
FilterUrls == { UrlA, UrlInternal, UrlExtension, UrlBlank, UrlNewtabPath, <<>> }
FilterStamps == { 0, StartMs - RecencyWindowMs, StartMs - RecencyWindowMs + 1, StartMs }
FilterNows == { StartMs, StartMs + RecencyWindowMs - 1 }
FilterIds == 1..3

\* two live tabs in two windows, any urls, any focus; id 3 is in no snapshot
FilterTabSets ==
    { { Tab(1, u, 1, 0, a1, FALSE), Tab(2, v, 2, 0, a2, TRUE) } :
        u \in FilterUrls, v \in { UrlB, UrlInternal }, a1 \in BOOLEAN, a2 \in BOOLEAN }

FilterInit ==
    /\ isProcessing = FALSE
    /\ job = [j \in JobIds |-> IdleJob]
    /\ tabs \in FilterTabSets
    /\ nextId = 3
    /\ lastAction = NoAction
    /\ events = <<>>
    /\ responses = {}
    /\ popupRunning = FALSE
    /\ faults = 0
    /\ started = 0
    /\ \E s1 \in FilterStamps, s2 \in FilterStamps :
         recentTouch = [t \in TabIds |-> IF t = 1 THEN s1 ELSE IF t = 2 THEN s2 ELSE 0]
    /\ now \in FilterNows
    /\ updates = 0
    /\ autoOrganizeTimer = FALSE
    /\ dbg = IdleDbg
    /\ debugRuns = 0
    /\ \E c \in SeqsUpTo(FilterIds, FilterMaxLen) :
         flt = [pc |-> "ready", tabsToClose |-> c, result |-> <<>>]
    /\ adp = IdleAdp
    /\ jrn = IdleJrn

\* analysis.tabsToClose = analysis.tabsToClose.filter(...), options.js:968-979
ApplyFilter ==
    /\ flt.pc = "ready"
    /\ flt' = [flt EXCEPT !.pc = "done",
                          !.result = SafetyFilter(flt.tabsToClose, tabs, recentTouch, now)]
    /\ UNCHANGED <<jobVars, hostVars, now, updates, autoOrganizeTimer, dbg, debugRuns, adp, jrn>>

FilterSpec == FilterInit /\ [][ApplyFilter]_vars

\* ----------------------------------------- the provider adapters on their own
\* everything but the harness of interest is at rest
QuietWorker ==
    /\ isProcessing = FALSE
    /\ job = [j \in JobIds |-> IdleJob]
    /\ tabs = InitTabs
    /\ nextId = Cardinality(InitTabs) + 1
    /\ events = <<>>
    /\ responses = {}
    /\ popupRunning = FALSE
    /\ faults = 0
    /\ started = 0
    /\ recentTouch = [t \in TabIds |-> 0]
    /\ now = StartMs
    /\ updates = 0
    /\ autoOrganizeTimer = FALSE
    /\ dbg = IdleDbg
    /\ debugRuns = 0

\* tabData.map((t) => t.id) in the order the tabs were queried
AdapterInputs == { <<>>, <<2, 1>>, <<1, 2, 3>> }

AdapterPayloads ==
    { Named([tabsToClose |-> <<1>>, tabGroups |-> << <<2, 3>> >>]),
      Named([tabsToClose |-> <<>>, tabGroups |-> <<>>]) }

AdapterReplies ==
    FailedReplies
    \cup { [status |-> "ok", text |-> t, payload |-> pl] :
             t \in SeqsUpTo(TextChars, AdapterMaxText), pl \in AdapterPayloads }

AdapterInit ==
    /\ QuietWorker
    /\ lastAction = NoAction
    /\ flt = IdleFlt
    /\ jrn = IdleJrn
    /\ \E a \in Providers, rep \in AdapterReplies, td \in AdapterInputs :
         adp = [pc |-> "ready", adapter |-> a, reply |-> rep, tabData |-> td,
                result |-> EmptyAnalysis]

\* one call of an adapter, options.js:681-890
ApplyAdapter ==
    /\ adp.pc = "ready"
    /\ adp' = [adp EXCEPT !.pc = "done",
                          !.result = AdapterResult(adp.adapter, adp.reply, adp.tabData)]
    /\ UNCHANGED <<jobVars, hostVars, now, updates, autoOrganizeTimer, dbg, debugRuns,
                   flt, jrn>>

AdapterSpec == AdapterInit /\ [][ApplyAdapter]_vars

\* ------------------------------------------------------ the journal on its own
JournalRecords ==
    { Action("close", << Meta(Tab(1, UrlA, 1, 2, FALSE, FALSE)) >>, <<>>),
      Action("group", <<>>, << <<1, 3>> >>),
      Action("none", <<>>, <<>>) }

JournalInit ==
    /\ QuietWorker
    /\ lastAction \in InitJournals
    /\ flt = IdleFlt
    /\ adp = IdleAdp
    /\ jrn = [pc |-> "on", log |-> <<>>]

JournalCall(op, ok, value) ==
    /\ jrn.pc = "on"
    /\ Len(jrn.log) < JournalMaxOps
    /\ jrn' = [jrn EXCEPT !.log = Append(@, [op |-> op, ok |-> ok, value |-> value])]
    /\ UNCHANGED <<isProcessing, job, events, responses, popupRunning, started, tabs, nextId,
                   recentTouch, now, updates, autoOrganizeTimer, dbg, debugRuns, flt, adp>>

\* await setLastAction(action): stored, or the failure is swallowed, options.js:384-390
JournalSet ==
    \E a \in JournalRecords :
        \/ Ok /\ lastAction' = StoredAfterSet(lastAction, a) /\ JournalCall("set", TRUE, a)
        \/ Fault /\ lastAction' = lastAction /\ JournalCall("set", FALSE, a)

\* await getLastAction(): the record, or null when there is none or the read
\* failed, options.js:391-399
JournalGet ==
    /\ lastAction' = lastAction
    /\ \/ Ok /\ JournalCall("get", TRUE, lastAction)
       \/ Fault /\ JournalCall("get", FALSE, NoAction)

\* await clearLastAction(): removed, or the failure is swallowed, options.js:400-406
JournalClear ==
    \/ Ok /\ lastAction' = NoAction /\ JournalCall("clear", TRUE, NoAction)
    \/ Fault /\ lastAction' = lastAction /\ JournalCall("clear", FALSE, NoAction)

JournalNext == JournalSet \/ JournalGet \/ JournalClear

JournalSpec == JournalInit /\ [][JournalNext]_vars

\* ------------------------------- the worker with a page it cannot script
ExtractTabs ==
    { Tab(1, UrlA, 1, 2, FALSE, FALSE),
      Tab(2, UrlRestricted, 1, 0, FALSE, TRUE),
      Tab(3, UrlC, 1, 1, TRUE, FALSE) }

ExtractInit ==
    /\ isProcessing = FALSE
    /\ job = [j \in JobIds |-> IdleJob]
    /\ tabs = ExtractTabs
    /\ nextId = Cardinality(ExtractTabs) + 1
    /\ lastAction \in InitJournals
    /\ events = <<>>
    /\ responses = {}
    /\ popupRunning = FALSE
    /\ faults = 0
    /\ started = 0
    /\ recentTouch = [t \in TabIds |-> 0]
    /\ now = StartMs
    /\ updates = 0
    /\ autoOrganizeTimer = FALSE
    /\ dbg = IdleDbg
    /\ debugRuns = 0
    /\ flt = IdleFlt
    /\ adp = IdleAdp
    /\ jrn = IdleJrn

ExtractSpec == ExtractInit /\ [][Next]_vars

\* ------------------------------------------ provider routing on its own
ModelGeminiDefault == "gemini-2.5-flash-lite"
ModelOpenAiDefault == "gpt-4.1"
ModelClaudeDefault == "claude-3-5-sonnet-latest"
ModelCustom == "custom-model"

\* the storage keys each job reads: providerAnalyze / modelAnalyze,
\* providerClose / modelClose, providerAuto / modelAuto
\* options.js:1066-1067, 1243-1244, 511-512
ConfigKey(kind) ==
    IF kind = "organize" THEN "analyze"
    ELSE IF kind = "close" THEN "close"
    ELSE "auto"

\* String.prototype.toLowerCase on the provider names that occur
ToLowerCase(provider) ==
    IF provider = "Gemini" THEN "gemini"
    ELSE IF provider = "OpenAI" THEN "openai"
    ELSE IF provider = "Claude" THEN "claude"
    ELSE provider

\* `(stored || <default>).toLowerCase()`, options.js:1069, 1246, 524
ResolveProvider(kind, stored) ==
    IF stored # "absent" THEN ToLowerCase(stored)
    ELSE IF kind = "auto" THEN "gemini" ELSE "openai"

\* `stored || (provider === "gemini" ? ... : provider === "openai" ? ... : ...)`
\* options.js:1070-1076, 1247-1253, 525-531
ResolveModel(stored, provider) ==
    IF stored # "absent" THEN stored
    ELSE IF provider = "gemini" THEN ModelGeminiDefault
    ELSE IF provider = "openai" THEN ModelOpenAiDefault
    ELSE ModelClaudeDefault

\* the model named in the request an adapter sends: the Gemini adapter takes
\* no model and names one in its URL, options.js:681, 703, 898; the others
\* send `model || <default>`, options.js:786, 851, 910
SentModel(adapter, model) ==
    IF adapter = "gemini" THEN ModelGeminiDefault
    ELSE IF adapter = "openai" THEN (IF model = "absent" THEN ModelOpenAiDefault ELSE model)
    ELSE (IF model = "absent" THEN ModelClaudeDefault ELSE model)

RouterProviders == {"absent", "gemini", "OpenAI", "claude"}
RouterModels == {"absent", ModelCustom}
RouterKeys == {"analyze", "close", "auto"}

\* chrome.storage.sync as the options page can leave it
RouterConfigs ==
    [RouterKeys -> [provider : RouterProviders, model : RouterModels]]

RouterInit ==
    /\ QuietWorker
    /\ lastAction = NoAction
    /\ flt = IdleFlt
    /\ jrn = IdleJrn
    /\ \E kind \in {"organize", "close", "auto"}, config \in RouterConfigs :
         adp = [pc |-> "stored", kind |-> kind, config |-> config,
                provider |-> "absent", model |-> "absent",
                adapter |-> "absent", sentModel |-> "absent"]

\* the job reads its keys and resolves provider and model
\* options.js:1062-1076, 1239-1253, 497-531
ResolveRoute ==
    /\ adp.pc = "stored"
    /\ LET stored == adp.config[ConfigKey(adp.kind)]
           provider == ResolveProvider(adp.kind, stored.provider)
       IN adp' = [adp EXCEPT !.pc = "resolved", !.provider = provider,
                             !.model = ResolveModel(stored.model, provider)]
    /\ UNCHANGED <<jobVars, hostVars, now, updates, autoOrganizeTimer, dbg, debugRuns,
                   flt, jrn>>

\* analyzeTabs picks the adapter and the adapter builds its request
\* options.js:895-913
InvokeAdapter ==
    /\ adp.pc = "resolved"
    /\ adp' = [adp EXCEPT !.pc = "sent", !.adapter = Route(adp.provider),
                          !.sentModel = SentModel(Route(adp.provider), adp.model)]
    /\ UNCHANGED <<jobVars, hostVars, now, updates, autoOrganizeTimer, dbg, debugRuns,
                   flt, jrn>>

RouterNext == ResolveRoute \/ InvokeAdapter

RouterSpec == RouterInit /\ [][RouterNext]_vars

\* ------------------------------------------------------------- properties
Running == { j \in JobIds : job[j].pc # "idle" }
RejectedResponse == [accepted |-> FALSE, response |-> StartResponse]
LastStage == IF events = <<>> THEN "none" ELSE events[Len(events)].stage

\* C1: at most one of organizeTabsAndClose, closeLowImportance, undoLastAction
\* and organizeTabsGeneric is between its start and its exit at any moment,
\* and a job is in flight only while the lock is held.
C1_MutualExclusion ==
    /\ Cardinality(Running) <= 1
    /\ Running # {} => isProcessing

\* a second request arrived while a job was past its first await
C1_Witness ==
    /\ isProcessing
    /\ \E j \in JobIds : job[j].pc = "extract" /\ job[j].kind = "organize"
    /\ RejectedResponse \in responses

\* a step in which a start request returns early: the listener answers a
\* request that no job step served, or the debounce timer fires under the lock
RejectStep ==
    \/ RejectedResponse \in responses' /\ RejectedResponse \notin responses
    \/ autoOrganizeTimer /\ ~autoOrganizeTimer' /\ isProcessing

\* C2: a start request that arrives while the lock is held changes neither the
\* lock, the running job, the journal nor the tabs, and sends no progress event.
C2_RejectChangesNothing ==
    [][RejectStep => UNCHANGED <<isProcessing, job, lastAction, tabs, events, started>>]_vars

\* a request was turned away while the running job was awaiting the provider
C2_Witness ==
    /\ RejectedResponse \in responses
    /\ \E j \in JobIds : job[j].pc = "analyze" /\ job[j].kind = "close"
    /\ Len(events) > 1

\* C3: the response to a rejected start request differs from the response to
\* an accepted one.
C3_RejectionDistinguishable ==
    \A a \in responses, b \in responses :
        a.accepted # b.accepted => a.response # b.response

\* C4: whenever no job is in flight the lock is free, whichever exit path the
\* last job took.
C4_LockReleased == Running = {} => ~isProcessing

\* undoLastAction has returned through its 'Nothing to undo' path
C4_Witness ==
    /\ Running = {}
    /\ started > 0
    /\ events # <<>>
    /\ events[Len(events)] = Ev("error", 1, 0)
    /\ events[1].stage = "undo_start"

\* C5: with every host call returning, an accepted job leads to a state in
\* which the lock is free and the last event sent is complete, error or
\* undo_complete.
C5_JobTerminates == isProcessing ~> (~isProcessing /\ LastStage \in TerminalStages)

\* an undo has run to its end
C5_Witness == ~isProcessing /\ LastStage = "undo_complete" /\ Len(events) > 2

\* C6: a debug helper changes tabs or the journal only while no job holds the
\* lock, and no job starts while a debug helper is running.
C6_DebugSharesLock ==
    [][ /\ (dbg' # dbg /\ (tabs' # tabs \/ lastAction' # lastAction)) => ~isProcessing
        /\ (~isProcessing /\ isProcessing') => dbg.pc = "idle" ]_vars

\* C7: the filtered list holds no id of a tab that is active in any window, no
\* id of a tab whose url starts with chrome:// or chrome-extension://, equals
\* about:blank or contains 'newtab', and no id touched less than 30 s before now.
C7_FilterResultIsSafe ==
    flt.pc = "done" =>
        \A i \in 1..Len(flt.result) :
            LET tid == flt.result[i]
            IN /\ \A t \in tabs : t.id = tid =>
                     /\ ~t.active
                     /\ ~StartsWith(t.url, "chrome://")
                     /\ ~StartsWith(t.url, "chrome-extension://")
                     /\ t.url # <<"about:blank">>
                     /\ ~Includes(t.url, "newtab")
               /\ ~(recentTouch[tid] # 0 /\ now - recentTouch[tid] < RecencyWindowMs)

\* the filter has dropped an active candidate and kept another
C7_Witness ==
    /\ flt.pc = "done"
    /\ flt.result # <<>>
    /\ \E i \in 1..Len(flt.tabsToClose) :
         \E t \in tabs : t.id = flt.tabsToClose[i] /\ t.active

\* job j's pending chrome.tabs.remove succeeds in this step
Removes(j) ==
    /\ job[j].pc = "closing"
    /\ job'[j].closed = job[j].closed + 1

Removed(j) == job[j].tabsToClose[job[j].i]

\* the snapshot says the filter would have dropped tab id
Unsafe(snap, id) ==
    \E t \in snap : t.id = id /\
        (t.active \/ IsProtectedUrl(t.url) \/ RecentlyTouched(recentTouch, id, now))

\* C8: organizeTabsAndClose and closeLowImportance remove only tabs the safety
\* filter lets through.
C8_FilterBeforeRemoval ==
    [][\A j \in JobIds :
          (Removes(j) /\ job[j].kind \in {"organize", "close"})
              => ~Unsafe(job[j].tabs, Removed(j))]_vars

\* C9: no job removes a pinned tab.
C9_PinnedPreserved ==
    [][\A j \in JobIds :
          Removes(j) => \A t \in tabs : t.id = Removed(j) => ~t.pinned]_vars

ClosingStages == {"closing_progress", "closing_done"}

\* C10: a step of organizeTabsAndClose whose effective autoClose is false
\* removes no tab, sends no closing_progress or closing_done, and writes a
\* journal record only with empty closedTabs.
C10_NoCloseWithoutAutoClose ==
    [][\A j \in JobIds :
          (job[j].kind = "organize" /\ ~job[j].autoClose /\ job'[j] # job[j]) =>
              /\ Ids(tabs) \subseteq Ids(tabs')
              /\ Stages(events') \cap ClosingStages = {}
              /\ lastAction' # lastAction => lastAction'.closedTabs = <<>>]_vars

\* the provider listed tabs to close, the request said autoClose: false, and
\* the job has passed the removal stage and is about to write its record
C10_Witness ==
    \E j \in JobIds :
        /\ job[j].kind = "organize"
        /\ job[j].settingsAutoClose = "false"
        /\ ~job[j].autoClose
        /\ job[j].pc = "record"
        /\ Len(job[j].tabsToClose) > 0

\* neither the text nor its slice from the first "{" to the last "}" is JSON
Unparsable(text) ==
    /\ ~IsJson(text)
    /\ LET start == FirstIndexOf(text, "{")
           end == LastIndexOf(text, "}")
       IN ~(start >= 1 /\ end > start /\ IsJson(SubSeq(text, start, end)))

AdapterFailed == adp.reply.status # "ok"

ExpectedFallback ==
    /\ adp.result.tabsToClose = <<>>
    /\ Len(adp.result.tabGroups) = 1
    /\ adp.result.tabGroups[1].name = "All Tabs"
    /\ adp.result.tabGroups[1].color = "purple"
    /\ adp.result.tabGroups[1].tabIds = adp.tabData
    /\ adp.result.reasoning =
         << (IF adp.adapter = "gemini" THEN "Gemini"
             ELSE IF adp.adapter = "openai" THEN "OpenAI" ELSE "Claude"),
            " error - basic grouping applied" >>

\* C11 as stated: when the provider call fails, or its response text parses
\* neither directly nor as the slice from the first '{' to the last '}', the
\* adapter returns no removals, the single purple group 'All Tabs' over every
\* input id in input order, and '<provider> error - basic grouping applied'.
C11_FallbackOnUnparsable ==
    (adp.pc = "done" /\ (AdapterFailed \/ Unparsable(adp.reply.text)))
        => ExpectedFallback

\* C11 amended: the same, for a failed call or a non-empty unparsable text; an
\* empty text is replaced by "{}" and yields empty lists and no group.
C11_FallbackOnNonEmptyUnparsable ==
    /\ (adp.pc = "done" /\
        (AdapterFailed \/ (adp.reply.text # <<>> /\ Unparsable(adp.reply.text))))
           => ExpectedFallback
    /\ (adp.pc = "done" /\ ~AdapterFailed /\ adp.reply.text = <<>>)
           => adp.result = [tabsToClose |-> <<>>, tabGroups |-> <<>>, reasoning |-> <<>>]

\* Claude answered with braces around text that is no JSON; three tabs were sent
C11_Witness ==
    /\ adp.pc = "done"
    /\ adp.adapter = "claude"
    /\ adp.reply.status = "ok"
    /\ adp.reply.text = <<"g", "{", "g", "}">>
    /\ adp.tabData = <<1, 2, 3>>
    /\ adp.result.tabGroups # <<>>

\* C12: the step in which the classification returns never ends the job and
\* sends no error event, and a job whose adapter fell back (network error,
\* non-OK status, unparsable text) ends with the complete event.
C12_ProviderFailureTolerated ==
    [][\A j \in JobIds :
          /\ (job[j].pc = "analyze" /\ job'[j] # job[j]) =>
                 (job'[j].pc # "idle" /\ "error" \notin Stages(events'))
          /\ (job[j].fallback /\ job'[j].pc = "idle") =>
                 events'[Len(events')].stage = "complete"]_vars

\* an organize job is labelling the 'All Tabs' group of a fallback classification
C12_Witness ==
    \E j \in JobIds :
        /\ job[j].kind = "organize"
        /\ job[j].fallback
        /\ job[j].pc = "label"
        /\ Len(job[j].tabGroups) = 1
        /\ Len(job[j].tabGroups[1]) = Cardinality(job[j].tabs)

\* C13: a successful getLastAction right after a successful setLastAction(B),
\* whatever was set before it, returns exactly B's type, closedTabs and
\* groupedTabIds; right after a successful clearLastAction it returns none.
C13_JournalSingleSlot ==
    jrn.pc = "on" =>
        \A i \in 2..Len(jrn.log) :
            (jrn.log[i].op = "get" /\ jrn.log[i].ok /\ jrn.log[i - 1].ok) =>
                /\ jrn.log[i - 1].op = "set" =>
                     /\ jrn.log[i].value.type = jrn.log[i - 1].value.type
                     /\ jrn.log[i].value.closedTabs = jrn.log[i - 1].value.closedTabs
                     /\ jrn.log[i].value.groupedTabIds = jrn.log[i - 1].value.groupedTabIds
                /\ jrn.log[i - 1].op = "clear" => jrn.log[i].value.type = "absent"

\* set(A), set(B) with A # B, then a read, all three succeeding
C13_Witness ==
    /\ jrn.pc = "on"
    /\ Len(jrn.log) = 3
    /\ \A i \in 1..3 : jrn.log[i].ok
    /\ jrn.log[1].op = "set" /\ jrn.log[2].op = "set" /\ jrn.log[3].op = "get"
    /\ jrn.log[1].value.closedTabs # <<>>
    /\ jrn.log[2].value.type = "group"

\* the record kinds: remove is "close", composite is "organize"
KindOf(removedAny, groupedAny) ==
    IF removedAny THEN (IF groupedAny THEN "organize" ELSE "close")
    ELSE (IF groupedAny THEN "group" ELSE "none")

\* C14: the type of the record a job writes is "close" iff it removed a tab
\* and created no group, "group" iff it created a group and removed no tab,
\* "organize" iff it did both, and "none" iff it did neither.
C14_KindFromWhatHappened ==
    [][\A j \in JobIds :
          (job[j].pc = "record" /\ lastAction' # lastAction) =>
              lastAction'.type = KindOf(job[j].closed > 0, job[j].grouped > 0)]_vars

\* C15: the record a job writes lists exactly the tabs it closed and the
\* groups it created, and the undo of a record issues an ungroup for each of
\* its batches and creates no more tabs than it lists, so that an undo whose
\* host calls all succeed creates one tab per tab the job actually closed.
C15_UndoRestoresCounts ==
    [][\A j \in JobIds :
          /\ (job[j].pc = "record" /\ lastAction' # lastAction) =>
                 /\ Len(lastAction'.closedTabs) = job[j].closed
                 /\ Len(lastAction'.groupedTabIds) = job[j].grouped
          /\ (job[j].pc = "clear" /\ job'[j].pc = "idle") =>
                 /\ job[j].processed = Len(job[j].action.groupedTabIds)
                 /\ job[j].reopened <= Len(job[j].action.closedTabs)]_vars

\* C16: when an undo sends undo_complete the journal is empty, and an undo
\* that finds the journal empty ends with 'Nothing to undo' and changes no tab.
C16_UndoClearsJournal ==
    [][\A j \in JobIds :
          /\ (job[j].kind = "undo" /\ job'[j].pc = "idle" /\
              events'[Len(events')].stage = "undo_complete")
                 => lastAction'.type = "absent"
          /\ (job[j].pc = "getLast" /\ job'[j] # job[j] /\ lastAction.type = "absent")
                 => /\ events'[Len(events')] = Ev("error", 1, 0)
                    /\ tabs' = tabs]_vars

\* C17: while the journal is empty no step takes the lock for an undo and no
\* step sends undo_start; the job slots, the journal and the tabs stay as
\* they are when such an undo is requested.
C17_EmptyUndoRejectedFirst ==
    [][(lastAction.type = "absent" /\ ~isProcessing) =>
          /\ \A j \in JobIds : job'[j].kind = "undo" => ~isProcessing'
          /\ events' # events => events'[1].stage # "undo_start"]_vars

ReopenPcs == {"create", "move", "pin", "create2"}

\* C18: an undo that is reopening tabs has made its ungroup attempt on every
\* recorded batch, and an undo that is still ungrouping has created no tab.
C18_UngroupBeforeReopen ==
    \A j \in JobIds :
        /\ job[j].pc \in ReopenPcs =>
               job[j].processed = Len(job[j].action.groupedTabIds)
        /\ job[j].pc = "ungroup" => (job[j].reopened = 0 /\ job[j].created = 0)

\* an undo of a record with a batch and a closed tab has reached its first create
C18_Witness ==
    \E j \in JobIds :
        /\ job[j].pc = "create"
        /\ job[j].processed > 0
        /\ job[j].reopened = 0
        /\ Len(job[j].action.closedTabs) > 0

\* C19: in an organize, close-only or automatic job, the percentage the popup
\* shows after an event is never below the percentage it showed after the
\* event before.
C19_ProgressMonotone ==
    (events # <<>> /\ events[1].stage = "start") =>
        \A k \in 1..(Len(events) - 1) :
            PercentAfter(events, k) <= PercentAfter(events, k + 1)

\* C20 as stated: after a job's complete, error or undo_complete event the
\* popup shows 100.
C20_TerminalShows100 ==
    (events # <<>> /\ LastStage \in TerminalStages) =>
        PercentAfter(events, Len(events)) = 100

\* C20 amended: after complete or undo_complete the popup shows 100; the
\* error event leaves the percentage where it was.
C20_SuccessShows100 ==
    events # <<>> =>
        /\ LastStage \in {"complete", "undo_complete"} =>
               PercentAfter(events, Len(events)) = 100
        /\ LastStage = "error" =>
               PercentAfter(events, Len(events)) = PercentAfter(events, Len(events) - 1)

\* a job has completed that the popup showed below 100 one event earlier
C20_Witness ==
    /\ ~isProcessing
    /\ LastStage = "complete"
    /\ Len(events) > 2
    /\ PercentAfter(events, Len(events) - 1) < 100

\* ------------------------------------------------- properties, C21 onwards
\* the pcs of a job whose ai_response has been sent
ExecutorPcs == {"closing", "group", "label", "record"}

\* closingPct / groupingPct of computePercent is 1, part_001:97, 100
CountsComplete(total, done) == IF total > 0 THEN done = total ELSE TRUE

\* C21: once the provider has answered, the popup counts the stage the job
\* skips as complete: grouping in a close-only job, removal in an organize
\* job that runs with autoClose = false, whatever the provider answered.
C21_SkippedStageCounts ==
    \A j \in JobIds :
        LET p == PopupAfter(events, Len(events))
        IN job[j].pc \in ExecutorPcs =>
            /\ job[j].kind = "close" =>
                   CountsComplete(p.groupingTotal, p.groupingDone)
            /\ (job[j].kind = "organize" /\ ~job[j].autoClose) =>
                   CountsComplete(p.closingTotal, p.closingDone)

\* C22: when a job that ran its removal loop is in its grouping loop, no
\* group's id list holds an id of the removal list the loop went through.
C22_RemovalGroupingDisjoint ==
    \A j \in JobIds :
        (job[j].pc \in {"group", "label"} /\ ShouldClose(job[j].kind, job[j].autoClose)) =>
            \A g \in 1..Len(job[j].tabGroups) :
                SeqIds(job[j].tabGroups[g]) \cap SeqIds(job[j].tabsToClose) = {}

PipelineKinds == {"organize", "close", "auto"}

\* the awaits of a pipeline whose exception reaches the outer catch
FatalPcs == {"keys", "prefs", "query", "analyze"}

CountStage(evs, stage) == Cardinality({ k \in 1..Len(evs) : evs[k].stage = stage })

\* C23: a pipeline job that ends from an await whose exception is fatal has
\* sent exactly one error event and no complete event since its start, and
\* the journal is not written by that step nor by any earlier step of the
\* job: while a pipeline job runs, the journal changes only in the step that
\* sends complete.
C23_FatalErrorEndsInError ==
    [][\A j \in JobIds :
          job[j].kind \in PipelineKinds =>
              /\ (job[j].pc \in FatalPcs /\ job'[j].pc = "idle") =>
                     /\ events'[Len(events')].stage = "error"
                     /\ CountStage(events', "error") = 1
                     /\ CountStage(events', "complete") = 0
                     /\ lastAction' = lastAction
              /\ lastAction' # lastAction =>
                     /\ job[j].pc = "record"
                     /\ events'[Len(events')].stage = "complete"]_vars

\* a pipeline job that found a record in the journal ended in its outer catch
\* before tabs_collected was sent
C23_Witness ==
    /\ ~isProcessing
    /\ Len(events) = 2
    /\ events[1].stage = "start"
    /\ events[2].stage = "error"
    /\ lastAction.type # "absent"
    /\ \A j \in JobIds : job[j].pc = "idle"

\* the purpose a job's configuration is keyed by
PurposeOf(kind) ==
    CASE kind = "organize" -> "analyze"
      [] kind = "close" -> "close"
      [] kind = "auto" -> "auto"

\* C24: the adapter a job invokes is the one of the provider configured for
\* the job's purpose, and the request it sends names the model resolved for
\* that purpose: the configured model, or the provider's default when none
\* is configured.
C24_RoutedPerPurpose ==
    adp.pc = "sent" =>
        LET stored == adp.config[PurposeOf(adp.kind)]
        IN /\ stored.provider # "absent" =>
                  adp.adapter = ToLowerCase(stored.provider)
           /\ adp.model = (IF stored.model # "absent" THEN stored.model
                           ELSE ResolveModel("absent", adp.adapter))
           /\ adp.sentModel = adp.model

ExtractEvents(evs) == SelectSeq(evs, LAMBDA e : e.stage = "extract_progress")

\* C25: a pipeline job that collected T tabs and is past its extraction loop
\* has sent exactly T extract_progress events, the i-th with completed = i
\* and total = T, whatever the extraction of each tab returned; when it calls
\* the provider, tabData holds the T tabs in the order they were collected.
C25_ExtractionPerItem ==
    \A j \in JobIds :
        LET T == Cardinality(job[j].tabs)
            sent == ExtractEvents(events)
        IN (job[j].kind \in PipelineKinds /\
            job[j].pc \in ExecutorPcs \cup {"analyze"}) =>
               /\ Len(sent) = T
               /\ \A i \in 1..T : sent[i].a = i /\ sent[i].b = T
               /\ job[j].pc = "analyze" =>
                      TabDataIds(job[j].tabData) = QueryOrder(job[j].tabs)

\* a job is about to call the provider after the extraction of its second
\* tab failed
C25_Witness ==
    \E j \in JobIds :
        /\ job[j].pc = "analyze"
        /\ Len(job[j].tabData) = 3
        /\ job[j].tabData[2].content = "empty"
        /\ job[j].tabData[3].content = "page"

\* job j takes a step in which its removal, group or label call fails
RemoveFails(j) ==
    job[j].pc = "closing" /\ job'[j] # job[j] /\ job'[j].closed = job[j].closed
GroupFails(j) ==
    \/ job[j].pc = "group" /\ job'[j] # job[j] /\ job'[j].pc # "label"
    \/ job[j].pc = "label" /\ job'[j] # job[j] /\ job'[j].grouped = job[j].grouped

\* the groups after group i that the loop does not skip
GroupsLeft(r) == { g \in (r.i + 1)..Len(r.tabGroups) : Len(r.tabGroups[g]) > 0 }

\* C26: after a removal fails the job attempts the next id of its removal
\* list, after a group or label call fails it attempts the next group with a
\* non-empty id list, and a job in its removal or grouping loop or at its
\* journal write ends only with complete.
C26_PerUnitIsolation ==
    [][\A j \in JobIds :
          /\ (RemoveFails(j) /\ job[j].i < Len(job[j].tabsToClose)) =>
                 job'[j].pc = "closing" /\ job'[j].i = job[j].i + 1
          /\ (GroupFails(j) /\ GroupsLeft(job[j]) # {}) =>
                 /\ job'[j].pc = "group"
                 /\ job'[j].i \in GroupsLeft(job[j])
                 /\ \A g \in GroupsLeft(job[j]) : job'[j].i <= g
          /\ (job[j].pc \in ExecutorPcs /\ job'[j].pc = "idle") =>
                 events'[Len(events')].stage = "complete"]_vars

\* the first removal of a job failed and the job is at its second removal
C26_Witness ==
    \E j \in JobIds :
        /\ job[j].pc = "closing"
        /\ job[j].i = 2
        /\ job[j].closed = 0
        /\ faults = 1

\* the groups of a job that its grouping loop does not skip
NonEmptyGroups(r) == { g \in 1..Len(r.tabGroups) : Len(r.tabGroups[g]) > 0 }

\* C27: a job that has finished its executor phases has sent one
\* closing_progress event per id of its removal list and one group_progress
\* event per group with a non-empty id list, whether the attempts succeeded
\* or not, and one summary event for each phase it ran.
C27_ProgressPerAttempt ==
    \A j \in JobIds :
        (job[j].kind \in PipelineKinds /\ job[j].pc = "record") =>
            /\ ShouldClose(job[j].kind, job[j].autoClose) =>
                   /\ CountStage(events, "closing_progress") = Len(job[j].tabsToClose)
                   /\ CountStage(events, "closing_done") = 1
            /\ Len(job[j].tabGroups) > 0 =>
                   /\ CountStage(events, "group_progress") =
                          Cardinality(NonEmptyGroups(job[j]))
                   /\ CountStage(events, "grouping_done") = 1

\* the tab groups of the host
GroupsIn(ts) == { t.groupId : t \in ts } \ {0}

\* the groups job record r has counted, and the one it has created and is
\* about to label
CountedOrPending(r) == r.grouped + (IF r.pc = "label" THEN 1 ELSE 0)

\* the last event of the given stage
LastOf(evs, stage) ==
    evs[CHOOSE k \in 1..Len(evs) :
            evs[k].stage = stage /\ \A m \in (k + 1)..Len(evs) : evs[m].stage # stage]

\* C28: in every step of a job's removal loop the closed count grows by the
\* number of tabs that left the host, in every step of its grouping loop the
\* groups counted or about to be labelled grow by the number of groups that
\* appeared in the host, and closing_done and grouping_done carry those counts.
C28_AggregateCountsAccurate ==
    [][\A j \in JobIds :
          (job[j].kind \in PipelineKinds /\ job'[j] # job[j]) =>
              /\ job[j].pc = "closing" =>
                     /\ job'[j].closed - job[j].closed =
                            Cardinality(Ids(tabs) \ Ids(tabs'))
                     /\ job'[j].pc # "closing" =>
                            LastOf(events', "closing_done").a = job'[j].closed
              /\ job[j].pc \in {"group", "label"} =>
                     /\ CountedOrPending(job'[j]) - CountedOrPending(job[j]) =
                            Cardinality(GroupsIn(tabs') \ GroupsIn(tabs))
                     /\ job'[j].pc = "record" =>
                            LastOf(events', "grouping_done").a = job'[j].grouped]_vars

\* C29: in an organize job tabs leave the host only in the removal loop and
\* groups appear only in the grouping loop, the grouping loop is never
\* followed by a removal, the journal is written only by the step that
\* follows the grouping loop, and complete is sent only by that step, with
\* which the job ends.
C29_PhaseOrder ==
    [][\A j \in JobIds :
          job[j].kind = "organize" =>
              /\ Ids(tabs) \ Ids(tabs') # {} => job[j].pc = "closing"
              /\ GroupsIn(tabs') \ GroupsIn(tabs) # {} => job[j].pc = "group"
              /\ job[j].pc \in {"group", "label"} =>
                     job'[j].pc \in {"group", "label", "record"}
              /\ job[j].pc = "record" => job'[j].pc \in {"record", "idle"}
              /\ lastAction' # lastAction => job[j].pc = "record"
              /\ CountStage(events', "complete") > CountStage(events, "complete") =>
                     job[j].pc = "record" /\ job'[j].pc = "idle"]_vars

\* an organize job that removed a tab and then created a group is at its
\* journal write
C29_Witness ==
    \E j \in JobIds :
        /\ job[j].kind = "organize"
        /\ job[j].pc = "record"
        /\ job[j].closed > 0
        /\ job[j].grouped > 0

\* C30: in an undo job the popup shows 5 after undo_start, between 20 and 40
\* after each undo_grouping_progress, 40 after undo_grouping_done, between 50
\* and 95 after each undo_reopen_progress and 100 after undo_complete, and
\* after no event less than after the event before.
C30_UndoCheckpoints ==
    (events # <<>> /\ events[1].stage = "undo_start") =>
        \A k \in 1..Len(events) :
            LET stage == events[k].stage
                pct == PercentAfter(events, k)
            IN /\ stage = "undo_start" => pct = 5
               /\ stage = "undo_grouping_progress" => (20 <= pct /\ pct <= 40)
               /\ stage = "undo_grouping_done" => pct = 40
               /\ stage = "undo_reopen_progress" => (50 <= pct /\ pct <= 95)
               /\ stage = "undo_complete" => pct = 100
               /\ k > 1 => PercentAfter(events, k - 1) <= pct

\* an undo that ungrouped a batch and reopened the first of two tabs
C30_Witness ==
    /\ events # <<>>
    /\ events[1].stage = "undo_start"
    /\ CountStage(events, "undo_grouping_progress") > 0
    /\ LastStage = "undo_reopen_progress"
    /\ events[Len(events)].a = 1
    /\ events[Len(events)].b = 2

\* ------------------------------------------------- properties, C31 onwards
\* the tabs a step adds to the host
NewTabs == { t \in tabs' : t.id \notin Ids(tabs) }

\* C31: in the reopen loop of an undo, the first creation for a recorded tab
\* adds at most one tab, inactive, with the recorded url and in the recorded
\* window; the fallback creation is reached only after the first one failed
\* and adds at most one inactive tab with the recorded url; a move or pin
\* step removes no tab, whether it fails or not, and after the last of them
\* the tab is counted and the loop goes on to the next recorded tab.
C31_ReopenBestEffort ==
    [][\A j \in JobIds :
          (job[j].kind = "undo" /\ job'[j] # job[j]) =>
              LET r == job[j]
                  meta == r.action.closedTabs[r.i]
              IN /\ r.pc = "create" =>
                        /\ Cardinality(NewTabs) <= 1
                        /\ \A t \in NewTabs :
                               /\ ~t.active /\ t.url = meta.url
                               /\ t.windowId = meta.windowId
                        /\ job'[j].pc = (IF NewTabs = {} THEN "create2" ELSE "move")
                 /\ r.pc = "create2" =>
                        /\ r.created = 0
                        /\ Cardinality(NewTabs) <= 1
                        /\ \A t \in NewTabs : ~t.active /\ t.url = meta.url
                 /\ r.pc \in {"move", "pin"} =>
                        /\ Ids(tabs') = Ids(tabs)
                        /\ job'[j].pc \in {"pin", "create", "clear"}
                        /\ job'[j].pc # "pin" =>
                               /\ job'[j].reopened = r.reopened + 1
                               /\ r.i < Len(r.action.closedTabs) =>
                                      job'[j].pc = "create" /\ job'[j].i = r.i + 1]_vars

\* an undo is about to pin a tab it created and could not move to the
\* recorded index
C31_Witness ==
    \E j \in JobIds :
        /\ job[j].pc = "pin"
        /\ HasTab(tabs, job[j].created)
        /\ TabOf(tabs, job[j].created).index #
               job[j].action.closedTabs[job[j].i].index
        /\ faults = 1

UndoLoopPcs == {"ungroup", "create", "move", "pin", "create2", "clear"}

\* C32: when an ungroup call of an undo fails the undo goes on to the next
\* recorded batch, when both creations for a recorded tab fail it goes on to
\* the next recorded tab, and an undo that is past its journal read ends only
\* by its clearLastAction step, which sends undo_complete and leaves the
\* journal empty unless the storage removal itself fails.
C32_UndoToleratesFailures ==
    [][\A j \in JobIds :
          (job[j].kind = "undo" /\ job'[j] # job[j]) =>
              LET r == job[j]
              IN /\ (r.pc = "ungroup" /\
                     CountStage(events', "undo_grouping_progress") =
                         CountStage(events, "undo_grouping_progress")) =>
                        IF r.i < Len(r.action.groupedTabIds)
                        THEN job'[j].pc = "ungroup" /\ job'[j].i = r.i + 1
                        ELSE job'[j].pc \in {"create", "clear"}
                 /\ (r.pc = "create2" /\ NewTabs = {}) =>
                        IF r.i < Len(r.action.closedTabs)
                        THEN job'[j].pc = "create" /\ job'[j].i = r.i + 1
                        ELSE job'[j].pc = "clear"
                 /\ (r.pc \in UndoLoopPcs /\ job'[j].pc = "idle") =>
                        /\ r.pc = "clear"
                        /\ events'[Len(events')].stage = "undo_complete"
                        /\ faults' = faults => lastAction' = NoAction]_vars

\* an undo is at its clearLastAction after an ungroup call failed, or after
\* both creations for a recorded tab failed
C32_Witness ==
    \E j \in JobIds :
        /\ job[j].kind = "undo"
        /\ job[j].pc = "clear"
        /\ \/ job[j].processed > CountStage(events, "undo_grouping_progress")
           \/ job[j].reopened < Len(job[j].action.closedTabs)

\* C33: every step of a job's removal loop adds an entry to the removed-tab
\* list exactly when it removes a tab from the host, the entry being the
\* metadata of that tab as collected, and the record the job writes carries
\* that list.
C33_JournalListsRemoved ==
    [][\A j \in JobIds :
          (job[j].kind \in PipelineKinds /\ job'[j] # job[j]) =>
              LET r == job[j]
                  gone == Ids(tabs) \ Ids(tabs')
              IN /\ r.pc = "closing" =>
                        /\ Len(job'[j].closedTabsMeta) - Len(r.closedTabsMeta) =
                               Cardinality(gone)
                        /\ gone # {} =>
                               job'[j].closedTabsMeta =
                                   Append(r.closedTabsMeta,
                                          Meta(TabOf(r.tabs, r.tabsToClose[r.i])))
                 /\ (r.pc = "record" /\ lastAction' # lastAction) =>
                        lastAction'.closedTabs = r.closedTabsMeta]_vars

\* C34: once chrome.tabs.group has returned for a group, the job's next step
\* appends the group's id list to its grouped batches, and the record the
\* job writes carries those batches.
C34_CreatedGroupsRecorded ==
    [][\A j \in JobIds :
          (job[j].kind \in PipelineKinds /\ job'[j] # job[j]) =>
              /\ job[j].pc = "label" =>
                     job'[j].groupedTabIds =
                         Append(job[j].groupedTabIds, job[j].tabGroups[job[j].i])
              /\ (job[j].pc = "record" /\ lastAction' # lastAction) =>
                     lastAction'.groupedTabIds = job[j].groupedTabIds]_vars

\* C35: a job started by the debounce timer runs with autoClose = false, is
\* never in the removal loop, has removed and listed no tab, takes no step
\* that removes a tab from the host, and writes a record whose removed-tab
\* list is empty.
C35_AutoNeverRemoves ==
    [][\A j \in JobIds :
          job[j].kind = "auto" =>
              /\ ~job[j].autoClose
              /\ job[j].pc # "closing"
              /\ job[j].closed = 0
              /\ job[j].closedTabsMeta = <<>>
              /\ job'[j] # job[j] =>
                     /\ Ids(tabs) \subseteq Ids(tabs')
                     /\ lastAction' # lastAction => lastAction'.closedTabs = <<>>]_vars

\* an automatic job whose provider proposed a removal that passed the filter
\* is at its journal write
C35_Witness ==
    \E j \in JobIds :
        /\ job[j].kind = "auto"
        /\ job[j].pc = "record"
        /\ Len(job[j].tabsToClose) > 0

\* the positions of the terminal events among the events of the latest job
TerminalAt == { k \in 1..Len(events) : events[k].stage \in TerminalStages }

\* C36: while the lock is held the job that holds it has sent no terminal
\* event, and once the lock is free again the latest job has sent exactly
\* one terminal event, which is the last event it sent.
C36_OneTerminalEventLast ==
    /\ isProcessing => TerminalAt = {}
    /\ (~isProcessing /\ events # <<>>) => TerminalAt = { Len(events) }

\* the second accepted job, an undo, has ended with undo_complete
C36_Witness ==
    /\ ~isProcessing
    /\ started = 2
    /\ Len(events) > 3
    /\ events[1].stage = "undo_start"
    /\ LastStage = "undo_complete"

\* C37: the popup does not stay in its running state forever: once a click has
\* set prog.running, a complete, error or undo_complete event arrives and
\* resets it, also when the request was rejected because a manual or an
\* automatic job held the lock
C37_PopupLeavesRunning == popupRunning ~> ~popupRunning

\* a click was rejected while an automatic job held the lock
C37_Witness ==
    /\ popupRunning
    /\ \E j \in JobIds : job[j].kind = "auto" /\ job[j].pc # "idle"
    /\ \E r \in responses : ~r.accepted

\* C38: whenever a job emits "complete", the journal holds the record of that
\* job: the step that sends "complete" leaves in storage the kind, the
\* removed-tab list and the grouped batches of the job that completes, also
\* when the storage write failed.
C38_CompleteImpliesOwnRecord ==
    [][\A j \in JobIds :
          (job[j].pc = "record" /\ job'[j].pc = "idle"
             /\ Len(events') > Len(events)
             /\ events'[Len(events')].stage = "complete") =>
              lastAction' = Action(ActionType(job[j]), job[j].closedTabsMeta,
                                   job[j].groupedTabIds)]_vars

\* C39: a record written by a manual organize or close-only job (here: any
\* record that lists removed tabs, which an automatic job never writes) stays
\* in storage until a manual job or an undo runs: no step of a job started
\* by the debounce timer overwrites or clears it.
C39_AutoKeepsManualRecord ==
    [][\A j \in JobIds :
          (job[j].kind = "auto" /\ job[j].pc # "idle" /\ job'[j] # job[j]
             /\ Len(lastAction.closedTabs) > 0) =>
              lastAction' = lastAction]_vars
====
